---- MODULE Spec2Model ----
(***************************************************************************)
(* Model of the two batch tools of image-conversation-python:              *)
(*   src/convert.py  ImageToPNGConverter (convert_to_png, convert_all)     *)
(*   src/main.py     ImageCompressor     (compress_image, compress_all)    *)
(* A file name is a sequence of one-character strings, so that             *)
(* Path(name).suffix, Path(name).stem and str.lower() are computed.        *)
(* An image is a record [mode, size, px]: px is the band tuple of one      *)
(* representative pixel (for mode P: the palette index).                   *)
(***************************************************************************)
EXTENDS Integers, Sequences, FiniteSets, TLC

VARIABLES
    tool,         \* "convert" (src/convert.py) or "compress" (src/main.py)
    raw,          \* the raw folder: file name -> [img, fault]
    dest,         \* the converted folder: file name -> [src, img, whole]
    run,          \* the batch run in progress: "first" or "second"
    pc,           \* position of the batch run
    png_files,    \* convert_all's png_files list
    image_files,  \* convert_all's / compress_all's image_files list
    i,            \* position of the for loop in the list being processed
    successful,
    failed,
    skipped,
    outcome,      \* file name -> the counter that was incremented for it
    log,          \* the records the run has logged, in order
    dest1,        \* the converted folder as the first run left it
    phase,        \* per-image specification: "input", "png" or "jpeg"
    img_in,       \* per-image specification: the opened image
    img_out       \* per-image specification: the image handed to the encoder

vars == <<tool, raw, dest, run, pc, png_files, image_files, i, successful,
          failed, skipped, outcome, log, dest1, phase, img_in, img_out>>

batchVars == <<tool, raw, dest, run, pc, png_files, image_files, i, successful,
               failed, skipped, outcome, log, dest1>>

imageVars == <<phase, img_in, img_out>>

(***************************************************************************)
(* Bounds of the model                                                     *)
(***************************************************************************)
MaxFiles == 2     \* files in the raw folder

(***************************************************************************)
(* File names                                                              *)
(***************************************************************************)
UpperChars == <<"A","B","C","D","E","F","G","H","I","J","K","L","M",
                "N","O","P","Q","R","S","T","U","V","W","X","Y","Z">>

LowerChars == <<"a","b","c","d","e","f","g","h","i","j","k","l","m",
                "n","o","p","q","r","s","t","u","v","w","x","y","z">>

\* str.lower() on one character
LowerChar(c) ==
    IF \E k \in 1..Len(UpperChars) : UpperChars[k] = c
    THEN LowerChars[CHOOSE k \in 1..Len(UpperChars) : UpperChars[k] = c]
    ELSE c

\* str.lower()
Lower(s) == [k \in 1..Len(s) |-> LowerChar(s[k])]

\* str.rfind('.') counted from 1; 0 when there is no dot
LastDot(name) ==
    IF \E k \in 1..Len(name) : name[k] = "."
    THEN CHOOSE k \in 1..Len(name) :
            name[k] = "." /\ \A m \in (k+1)..Len(name) : name[m] # "."
    ELSE 0

\* pathlib: Path(name).suffix (a leading or a trailing dot starts no suffix)
Suffix(name) ==
    LET d == LastDot(name)
    IN  IF 1 < d /\ d < Len(name) THEN SubSeq(name, d, Len(name)) ELSE <<>>

\* pathlib: Path(name).stem
Stem(name) ==
    LET d == LastDot(name)
    IN  IF 1 < d /\ d < Len(name) THEN SubSeq(name, 1, d - 1) ELSE name

ExtPng == <<".", "p", "n", "g">>
ExtJpg == <<".", "j", "p", "g">>

\* self.supported_formats of ImageToPNGConverter
ConverterFormats ==
    { <<".","j","p","g">>, <<".","j","p","e","g">>, <<".","b","m","p">>,
      <<".","t","i","f","f">>, <<".","t","i","f">>, <<".","w","e","b","p">>,
      <<".","g","i","f">>, <<".","i","c","o">>, <<".","p","n","g">> }

\* self.supported_formats of ImageCompressor
CompressorFormats ==
    { <<".","j","p","g">>, <<".","j","p","e","g">>, <<".","p","n","g">>,
      <<".","b","m","p">>, <<".","t","i","f","f">>, <<".","w","e","b","p">> }

supported_formats(t) ==
    IF t = "convert" THEN ConverterFormats ELSE CompressorFormats

\* mutants of the filter: the extension compared without lower-casing it;
\* any extension accepted
IsSupported_NoLower(t, name) == Suffix(name) \in supported_formats(t)

IsSupported_AnySuffix(t, name) == Suffix(name) # <<>>

\* the filter of the os.listdir loop
IsSupported(t, name) == Lower(Suffix(name)) \in supported_formats(t)

\* mutant: the extension compared with '.png' without lower-casing it
IsPng_CaseSensitive(name) == Suffix(name) = ExtPng

\* file_ext == '.png'
IsPng(name) == Lower(Suffix(name)) = ExtPng

\* mutant: '.png' appended to the whole name instead of to the stem
PngName_KeepExt(name) == name \o ExtPng

\* the name a non-PNG file is converted to: Path(filename).stem + '.png'
PngName(name) == Stem(name) \o ExtPng

\* the name a file is compressed to: Path(filename).stem + '.jpg'
JpgName(name) == Stem(name) \o ExtJpg

\* the names the raw folder may hold
Names ==
    { <<"a",".","j","p","g">>, <<"a",".","t","i","f">>, <<"a",".","p","n","g">>,
      <<"a",".","P","N","G">>, <<"a",".","t","x","t">>,
      <<"b",".","j","p","g">>,
      <<".","p","n","g">> }

(***************************************************************************)
(* Images                                                                  *)
(***************************************************************************)
\* the palette of the mode-P images: index -> the RGBA entry it stands for
Palette ==
    [k \in 0..2 |-> CASE k = 0 -> <<10, 20, 30, 255>>
                      [] k = 1 -> <<200, 100, 50, 0>>
                      [] OTHER -> <<0, 0, 0, 128>>]

Greys == {0, 100, 255}
Alphas == {0, 128, 255}
Colours == { <<10, 20, 30>>, <<0, 0, 0>>, <<255, 255, 255>> }
Sizes == { <<1, 1>>, <<2, 1>> }

Pixels(mode) ==
    CASE mode = "1"    -> { <<0>>, <<255>> }
      [] mode = "L"    -> { <<l>> : l \in Greys }
      [] mode = "LA"   -> { <<l, a>> : l \in Greys, a \in Alphas }
      [] mode = "RGB"  -> Colours
      [] mode = "RGBA" -> { c \o <<a>> : c \in Colours, a \in Alphas }
      [] mode = "P"    -> { <<k>> : k \in DOMAIN Palette }
      [] OTHER         -> { <<0, 0, 0, 255>> }

Modes == {"1", "L", "LA", "RGB", "RGBA", "P", "CMYK"}

Images ==
    UNION { { [mode |-> m, size |-> s, px |-> p] : s \in Sizes, p \in Pixels(m) }
            : m \in Modes }

\* Image.convert('RGBA')
ConvertRGBA(img) ==
    LET p == img.px
        q == CASE img.mode = "RGB"  -> <<p[1], p[2], p[3], 255>>
               [] img.mode = "L"    -> <<p[1], p[1], p[1], 255>>
               [] img.mode = "1"    -> <<p[1], p[1], p[1], 255>>
               [] img.mode = "LA"   -> <<p[1], p[1], p[1], p[2]>>
               [] img.mode = "P"    -> Palette[p[1]]
               [] OTHER             -> p
    IN  [mode |-> "RGBA", size |-> img.size, px |-> q]

\* mutant: mode L left out of the modes converted to RGBA
NormalizeForPNG_ForgetsL(img) ==
    IF img.mode = "P" THEN ConvertRGBA(img)
    ELSE IF img.mode \in {"RGB", "1"} THEN ConvertRGBA(img)
    ELSE img

\* convert_to_png: the colour mode normalisation before img.save
NormalizeForPNG(img) ==
    IF img.mode = "P" THEN ConvertRGBA(img)
    ELSE IF img.mode \in {"RGB", "L", "1"} THEN ConvertRGBA(img)
    ELSE img

\* Image.new('RGB', size, colour)
NewRGB(size, colour) == [mode |-> "RGB", size |-> size, px |-> colour]

\* img.split()[-1]: the value of the last band
LastBand(img) == img.px[Len(img.px)]

\* the three colour bands Image.paste copies from an image into an RGB image
ColourBands(img) ==
    IF img.mode \in {"L", "LA", "1"}
    THEN <<img.px[1], img.px[1], img.px[1]>>
    ELSE <<img.px[1], img.px[2], img.px[3]>>

\* one band of a masked paste: x over y under mask m, rounded
Blend(x, y, m) == (2 * (x * m + y * (255 - m)) + 255) \div 510

NoMask == -1

\* background.paste(img, mask=mask): without a mask the image replaces the
\* background, with a mask the two are blended band by band
Paste(background, img, mask) ==
    LET c == ColourBands(img)
    IN  IF mask = NoMask
        THEN [background EXCEPT !.px = c]
        ELSE [background EXCEPT
                !.px = [k \in 1..3 |-> Blend(c[k], background.px[k], mask)]]

\* compress_image: the colour mode normalisation before img.save
FlattenForJPEG(img) ==
    IF img.mode \in {"RGBA", "LA", "P"}
    THEN LET background == NewRGB(img.size, <<255, 255, 255>>)
             im == IF img.mode = "P" THEN ConvertRGBA(img) ELSE img
             mask == IF im.mode = "RGBA" THEN LastBand(im) ELSE NoMask
         IN  Paste(background, im, mask)
    ELSE img

(***************************************************************************)
(* The folders                                                             *)
(***************************************************************************)
\* the images the batch specification puts in the raw folder
ImgRGB == [mode |-> "RGB", size |-> <<2, 1>>, px |-> <<10, 20, 30>>]
ImgL == [mode |-> "L", size |-> <<1, 1>>, px |-> <<100>>]
ImgRGBA == [mode |-> "RGBA", size |-> <<1, 1>>, px |-> <<10, 20, 30, 0>>]

\* what processing a file meets: "none"; "open": Image.open or the decoding
\* raises, before the destination is touched; "write": img.save raises while
\* writing; "size": the size measurement after img.save raises
Faults == {"none", "open", "write", "size"}

Kinds ==
    { [img |-> g, fault |-> "none"] : g \in {ImgRGB, ImgL, ImgRGBA} }
    \cup { [img |-> ImgRGB, fault |-> f] : f \in Faults \ {"none"} }

Folders ==
    UNION { [S -> Kinds] : S \in { T \in SUBSET Names : Cardinality(T) <= MaxFiles } }

Empty == [x \in {} |-> x]

\* the orders os.listdir may yield the names of S in
Listings(S) ==
    { l \in [1..Cardinality(S) -> S] : \A x \in S : \E k \in DOMAIN l : l[k] = x }

\* mutant: a file that exists in the converted folder is not written again
Save_NoOverwrite(d, output_path, src, img, fault, kept) ==
    IF fault = "open" \/ output_path \in DOMAIN d THEN d
    ELSE IF fault = "write" /\ ~kept THEN d
    ELSE [x \in DOMAIN d \cup {output_path} |->
            IF x = output_path
            THEN [src |-> src, img |-> img, whole |-> fault # "write"]
            ELSE d[x]]

\* img.save(output_path, ...) by the file `src`: what the converted folder
\* holds afterwards. A write that raises leaves a truncated file, or none
\* when the file did not exist before and `kept` is FALSE
Save(d, output_path, src, img, fault, kept) ==
    LET file == [src |-> src, img |-> img, whole |-> fault # "write"]
    IN  IF fault = "open" THEN d
        ELSE IF fault = "write" /\ output_path \notin DOMAIN d /\ ~kept THEN d
        ELSE [x \in DOMAIN d \cup {output_path} |->
                IF x = output_path THEN file ELSE d[x]]

\* the choices `kept` is drawn from
Kept(d, output_path, fault) ==
    IF fault = "write" /\ output_path \notin DOMAIN d THEN BOOLEAN ELSE {TRUE}

\* mutant: the except branch returns True as well
convert_to_png_ReturnsTrue(d, lg, filename, output_path, kept) ==
    LET k == raw[filename]
    IN  [ok   |-> TRUE,
         dest |-> Save(d, output_path, filename, NormalizeForPNG(k.img), k.fault, kept),
         log  |-> lg \o << <<"processing", filename>>,
                           IF k.fault = "none"
                           THEN <<"saved", filename, output_path>>
                           ELSE <<"error", filename>> >>]

\* convert_to_png(input_path, output_path): the return value, the converted
\* folder and the log afterwards
convert_to_png(d, lg, filename, output_path, kept) ==
    LET k == raw[filename]
    IN  [ok   |-> k.fault = "none",
         dest |-> Save(d, output_path, filename, NormalizeForPNG(k.img), k.fault, kept),
         log  |-> lg \o << <<"processing", filename>>,
                           IF k.fault = "none"
                           THEN <<"saved", filename, output_path>>
                           ELSE <<"error", filename>> >>]

\* compress_image(input_path, output_path)
compress_image(d, lg, filename, output_path, kept) ==
    LET k == raw[filename]
    IN  [ok   |-> k.fault = "none",
         dest |-> Save(d, output_path, filename, FlattenForJPEG(k.img), k.fault, kept),
         log  |-> lg \o << <<"processing", filename>>,
                           IF k.fault = "none"
                           THEN <<"saved", filename, output_path>>
                           ELSE <<"error", filename>> >>]

\* the counter a file is counted in
Counted(o, filename, counter) ==
    [x \in DOMAIN o \cup {filename} |-> IF x = filename THEN counter ELSE o[x]]

(***************************************************************************)
(* The batch run                                                           *)
(***************************************************************************)
Init ==
    /\ tool \in {"convert", "compress"}
    /\ raw \in Folders
    /\ dest = Empty
    /\ run = "first"
    /\ pc = "start"
    /\ png_files = <<>>
    /\ image_files = <<>>
    /\ i = 1
    /\ successful = 0
    /\ failed = 0
    /\ skipped = 0
    /\ outcome = Empty
    /\ log = <<>>
    /\ dest1 = Empty
    /\ phase = "none"
    /\ img_in = ImgRGB
    /\ img_out = ImgRGB

\* convert_all / compress_all up to the first file: the listing, the
\* partition, the return when nothing matched, the counters
Scan ==
    /\ pc = "start"
    /\ \E listing \in Listings(DOMAIN raw) :
          LET IsImage(f) == IsSupported(tool, f) /\ (tool = "convert" => ~IsPng(f))
              IsPngFile(f) == tool = "convert" /\ IsSupported(tool, f) /\ IsPng(f)
              pngs == SelectSeq(listing, IsPngFile)
              images == SelectSeq(listing, IsImage)
          IN  /\ png_files' = pngs
              /\ image_files' = images
              /\ IF Len(images) + Len(pngs) = 0
                 THEN /\ log' = << <<"warning">> >>
                      /\ pc' = "returned"
                 ELSE /\ log' = << <<"found", Len(images) + Len(pngs)>> >>
                      /\ pc' = IF pngs # <<>> THEN "png" ELSE "img"
    /\ i' = 1
    /\ successful' = 0
    /\ failed' = 0
    /\ skipped' = 0
    /\ outcome' = Empty
    /\ UNCHANGED <<tool, raw, dest, run, dest1, imageVars>>

\* where the run goes after the file at position i of the list l
AfterFile(l, after) ==
    IF i < Len(l) THEN [pc |-> pc, i |-> i + 1] ELSE [pc |-> after, i |-> 1]

\* one iteration of `for filename in png_files`
HandlePng ==
    /\ pc = "png"
    /\ LET filename == png_files[i]
           output_path == filename
           k == raw[filename]
           ok == k.fault = "none"
           next == AfterFile(png_files, IF image_files # <<>> THEN "img" ELSE "summary")
       IN  /\ \E kept \in Kept(dest, output_path, k.fault) :
                 dest' = Save(dest, output_path, filename, k.img, k.fault, kept)
           /\ log' = log \o << <<"copying", filename>>,
                               IF ok THEN <<"saved", filename, output_path>>
                                     ELSE <<"error", filename>> >>
           /\ skipped' = IF ok THEN skipped + 1 ELSE skipped
           /\ failed' = IF ok THEN failed ELSE failed + 1
           /\ outcome' = Counted(outcome, filename, IF ok THEN "skipped" ELSE "failed")
           /\ pc' = next.pc
           /\ i' = next.i
    /\ UNCHANGED <<tool, raw, run, png_files, image_files, successful, dest1, imageVars>>

\* one iteration of `for filename in image_files` of convert_all
ConvertFile ==
    /\ pc = "img"
    /\ tool = "convert"
    /\ LET filename == image_files[i]
           output_path == PngName(filename)
           next == AfterFile(image_files, "summary")
       IN  \E kept \in Kept(dest, output_path, raw[filename].fault) :
              LET r == convert_to_png(dest, log, filename, output_path, kept)
              IN  /\ dest' = r.dest
                  /\ log' = r.log
                  /\ successful' = IF r.ok THEN successful + 1 ELSE successful
                  /\ failed' = IF r.ok THEN failed ELSE failed + 1
                  /\ outcome' = Counted(outcome, filename,
                                        IF r.ok THEN "successful" ELSE "failed")
                  /\ pc' = next.pc
                  /\ i' = next.i
    /\ UNCHANGED <<tool, raw, run, png_files, image_files, skipped, dest1, imageVars>>

\* one iteration of `for filename in image_files` of compress_all
CompressFile ==
    /\ pc = "img"
    /\ tool = "compress"
    /\ LET filename == image_files[i]
           output_path == JpgName(filename)
           next == AfterFile(image_files, "summary")
       IN  \E kept \in Kept(dest, output_path, raw[filename].fault) :
              LET r == compress_image(dest, log, filename, output_path, kept)
              IN  /\ dest' = r.dest
                  /\ log' = r.log
                  /\ successful' = IF r.ok THEN successful + 1 ELSE successful
                  /\ failed' = IF r.ok THEN failed ELSE failed + 1
                  /\ outcome' = Counted(outcome, filename,
                                        IF r.ok THEN "successful" ELSE "failed")
                  /\ pc' = next.pc
                  /\ i' = next.i
    /\ UNCHANGED <<tool, raw, run, png_files, image_files, skipped, dest1, imageVars>>

\* the final summary
Summary ==
    /\ pc = "summary"
    /\ log' = Append(log, <<"summary", successful, skipped, failed>>)
    /\ pc' = "done"
    /\ UNCHANGED <<tool, raw, dest, run, png_files, image_files, i, successful,
                   failed, skipped, outcome, dest1, imageVars>>

\* the tool is started again on the unchanged raw folder
Rerun ==
    /\ pc \in {"done", "returned"}
    /\ run = "first"
    /\ run' = "second"
    /\ dest1' = dest
    /\ pc' = "start"
    /\ png_files' = <<>>
    /\ image_files' = <<>>
    /\ i' = 1
    /\ successful' = 0
    /\ failed' = 0
    /\ skipped' = 0
    /\ outcome' = Empty
    /\ log' = <<>>
    /\ UNCHANGED <<tool, raw, dest, imageVars>>

Next ==
    \/ Scan
    \/ HandlePng
    \/ ConvertFile
    \/ CompressFile
    \/ Summary
    \/ Rerun

Spec == Init /\ [][Next]_vars

\* the run is one thread that runs to its end
FairSpec == Spec /\ WF_vars(Next)

(***************************************************************************)
(* One image through the colour mode normalisation of either tool          *)
(***************************************************************************)
ImageInit ==
    /\ phase = "input"
    /\ img_in \in Images
    /\ img_out = img_in
    /\ tool = "convert"
    /\ raw = Empty
    /\ dest = Empty
    /\ run = "first"
    /\ pc = "idle"
    /\ png_files = <<>>
    /\ image_files = <<>>
    /\ i = 1
    /\ successful = 0
    /\ failed = 0
    /\ skipped = 0
    /\ outcome = Empty
    /\ log = <<>>
    /\ dest1 = Empty

\* convert_to_png between Image.open and img.save
OpenForPNG ==
    /\ phase = "input"
    /\ img_out' = NormalizeForPNG(img_in)
    /\ phase' = "png"
    /\ UNCHANGED <<img_in, batchVars>>

\* compress_image between Image.open and img.save
OpenForJPEG ==
    /\ phase = "input"
    /\ img_out' = FlattenForJPEG(img_in)
    /\ phase' = "jpeg"
    /\ UNCHANGED <<img_in, batchVars>>

ImageNext ==
    \/ OpenForPNG
    \/ OpenForJPEG

ImageSpec == ImageInit /\ [][ImageNext]_vars

(***************************************************************************)
(* What the properties speak of                                            *)
(***************************************************************************)
\* the files of the raw folder whose lower-cased extension is supported
MatchedFiles == { f \in DOMAIN raw : Lower(Suffix(f)) \in supported_formats(tool) }

\* the matched files whose lower-cased extension is .png
PngSources == { f \in MatchedFiles : Lower(Suffix(f)) = <<".", "p", "n", "g">> }

\* the name a source file is expected under in the converted folder
ExpectedName(f) ==
    IF tool = "compress" THEN Stem(f) \o <<".", "j", "p", "g">>
    ELSE IF f \in PngSources THEN f
    ELSE Stem(f) \o <<".", "p", "n", "g">>

Logged(what, f) == \E k \in DOMAIN log : log[k][1] = what /\ log[k][2] = f

\* the paths the log reports f as successfully saved to
SavedPaths(f) == { log[k][3] : k \in { m \in DOMAIN log : log[m][1] = "saved" /\ log[m][2] = f } }

CountedAs(counter) == { f \in DOMAIN outcome : outcome[f] = counter }

Finished == pc \in {"done", "returned"}

(***************************************************************************)
(* C1: when a batch run reaches its final summary, successful + failed +   *)
(* skipped is the number of matched source files, every matched file is    *)
(* counted in exactly one counter, and the compressor skips nothing.       *)
(***************************************************************************)
C1_CountersPartitionMatched ==
    pc = "done" =>
        /\ successful + failed + skipped = Cardinality(MatchedFiles)
        /\ DOMAIN outcome = MatchedFiles
        /\ successful = Cardinality(CountedAs("successful"))
        /\ failed = Cardinality(CountedAs("failed"))
        /\ skipped = Cardinality(CountedAs("skipped"))
        /\ tool = "compress" => skipped = 0
        /\ log[Len(log)] = <<"summary", successful, skipped, failed>>

C1_Witness ==
    /\ pc = "done"
    /\ Cardinality(MatchedFiles) = 2
    /\ failed = 1
    /\ skipped = 1
    /\ \E f \in MatchedFiles : Suffix(f) # Lower(Suffix(f))

(***************************************************************************)
(* C2 (as claimed): after a run into an empty converted folder the files   *)
(* there correspond 1:1 to the matched source files: two distinct source   *)
(* files reported as saved were saved to distinct destination files, and   *)
(* each one's output is in the folder.                                     *)
(***************************************************************************)
C2_DestOneToOne ==
    (pc = "done" /\ run = "first") =>
        \A f \in MatchedFiles : \A x \in SavedPaths(f) :
            /\ \A g \in MatchedFiles \ {f} : x \notin SavedPaths(g)
            /\ x \in DOMAIN dest
            /\ dest[x].src = f

(***************************************************************************)
(* C3: a processing error on a matched file (at open, at write, at the     *)
(* size measurement; PNG path or conversion path) is caught at that file:  *)
(* the file is counted as failed, every matched file is still processed,   *)
(* and a run that has begun processing reaches its final summary.          *)
(***************************************************************************)
C3_ErrorsContained ==
    /\ [](pc = "done" =>
            /\ MatchedFiles \subseteq DOMAIN outcome
            /\ \A f \in MatchedFiles :
                  raw[f].fault # "none" => (outcome[f] = "failed" /\ Logged("error", f))
            /\ log[Len(log)][1] = "summary")
    /\ (pc \in {"png", "img"}) ~> (pc = "done")

C3_Witness ==
    /\ pc = "done"
    /\ \E k \in DOMAIN log : \E m \in DOMAIN log :
          /\ k < m
          /\ log[k][1] = "error"
          /\ log[m][1] = "saved"
    /\ \E f \in PngSources : outcome[f] = "failed"

(***************************************************************************)
(* C4: when no file of the raw folder has a supported extension, the run   *)
(* logs a warning, writes nothing to the converted folder, processes and   *)
(* counts no file, logs no summary and returns.                            *)
(***************************************************************************)
C4_NoMatchesNoWork ==
    /\ (MatchedFiles = {} /\ pc # "start") =>
          /\ pc = "returned"
          /\ log = << <<"warning">> >>
          /\ dest = Empty
          /\ outcome = Empty
          /\ successful + failed + skipped = 0
    /\ pc = "returned" => MatchedFiles = {}

C4_Witness ==
    /\ pc = "returned"
    /\ tool = "compress"
    /\ \E f \in DOMAIN raw : f \in Names /\ Suffix(f) = <<".", "t", "i", "f">>

(***************************************************************************)
(* C5: at the end of the batch every file counted as successful or         *)
(* skipped was reported as saved to its expected name and a file exists    *)
(* under that name in the converted folder; a file counted as failed was   *)
(* not reported as successfully saved.                                     *)
(***************************************************************************)
C5_CountedSavedExists ==
    pc = "done" =>
        \A f \in DOMAIN outcome :
            /\ outcome[f] \in {"successful", "skipped"} =>
                  /\ SavedPaths(f) = {ExpectedName(f)}
                  /\ ExpectedName(f) \in DOMAIN dest
            /\ outcome[f] = "failed" => SavedPaths(f) = {}

C5_Witness ==
    /\ pc = "done"
    /\ \E f \in DOMAIN outcome : \E g \in DOMAIN outcome :
          /\ outcome[f] = "skipped"
          /\ outcome[g] = "failed"
          /\ ExpectedName(g) = ExpectedName(f)
          /\ raw[g].fault = "write"

(***************************************************************************)
(* C6: in the converter a matched file whose lower-cased extension is .png *)
(* never goes through convert_to_png and never counts as successful: it is *)
(* saved under its unchanged name and counted as skipped, or as failed if  *)
(* re-encoding raises; successful counts only non-PNG files.               *)
(***************************************************************************)
C6_PngOnlySkipped ==
    (tool = "convert" /\ pc = "done") =>
        /\ \A f \in PngSources :
              /\ ~Logged("processing", f)
              /\ Logged("copying", f)
              /\ outcome[f] = (IF raw[f].fault = "none" THEN "skipped" ELSE "failed")
              /\ outcome[f] = "skipped" => (SavedPaths(f) = {f} /\ f \in DOMAIN dest)
        /\ successful = Cardinality({ f \in MatchedFiles \ PngSources : raw[f].fault = "none" })
        /\ skipped = Cardinality({ f \in PngSources : raw[f].fault = "none" })

C6_Witness ==
    /\ tool = "convert"
    /\ pc = "done"
    /\ \E f \in DOMAIN raw :
          /\ DOMAIN raw = {f}
          /\ Suffix(f) = <<".", "P", "N", "G">>
          /\ raw[f].fault = "none"
    /\ skipped = 1
    /\ successful = 0

(***************************************************************************)
(* C7 (as claimed): with a deterministic encoder (no write that fails      *)
(* midway) and the raw folder unchanged, a second run of the converter     *)
(* leaves the converted folder exactly as the first run left it, whatever  *)
(* order the directory listing has in each run.                            *)
(***************************************************************************)
C7_SecondRunSameDest ==
    (/\ tool = "convert"
     /\ run = "second"
     /\ Finished
     /\ \A f \in DOMAIN raw : raw[f].fault # "write") => dest = dest1

\* the RGBA pixel of an image without transparency: its colour values with
\* a fully opaque alpha
OpaqueRGBA(img) ==
    IF img.mode = "RGB" THEN <<img.px[1], img.px[2], img.px[3], 255>>
    ELSE <<img.px[1], img.px[1], img.px[1], 255>>

\* a completely written file of the converted folder has its source's
\* dimensions and, for a source in mode RGB, L or 1, is RGBA with the
\* source's colours and an opaque alpha
NormalizedFrom(file) ==
    LET s == raw[file.src].img
    IN  /\ file.img.size = s.size
        /\ s.mode \in {"RGB", "L", "1"} =>
              (file.img.mode = "RGBA" /\ file.img.px = OpaqueRGBA(s))

(***************************************************************************)
(* C8 (as claimed): every PNG the converter writes has its source's        *)
(* dimensions and, for a source in mode RGB, L or 1, is RGBA with the      *)
(* source's colour values and an opaque alpha, sources that are already    *)
(* .png included.                                                          *)
(***************************************************************************)
C8_EveryPngNormalized ==
    tool = "convert" =>
        \A d \in DOMAIN dest : dest[d].whole => NormalizedFrom(dest[d])

(***************************************************************************)
(* C8 (amended): the above holds for every PNG written from a non-PNG      *)
(* source; a PNG written from a source that is already .png has the        *)
(* source's dimensions, mode and pixel values unchanged.                   *)
(***************************************************************************)
C8_ConvertedPngNormalized ==
    tool = "convert" =>
        \A d \in DOMAIN dest : dest[d].whole =>
            IF dest[d].src \in PngSources
            THEN dest[d].img = raw[dest[d].src].img
            ELSE NormalizedFrom(dest[d])

C8_Witness ==
    /\ tool = "convert"
    /\ \E d \in DOMAIN dest : \E e \in DOMAIN dest :
          /\ dest[d].whole
          /\ dest[d].src \notin PngSources
          /\ raw[dest[d].src].img.mode = "L"
          /\ dest[d].img.mode = "RGBA"
          /\ dest[e].whole
          /\ dest[e].src \in PngSources
          /\ dest[e].img.mode = "RGB"

\* an RGBA pixel composited over opaque white, its alpha the mask
OverWhite(p) ==
    [k \in 1..3 |->
        IF p[4] = 255 THEN p[k]
        ELSE IF p[4] = 0 THEN 255
        ELSE (2 * (p[k] * p[4] + 255 * (255 - p[4])) + 255) \div 510]

(***************************************************************************)
(* C9 (as claimed): compress_image flattens an image in mode RGBA, LA or P *)
(* onto an opaque white RGB background of the same dimensions, the image's *)
(* alpha channel being the compositing mask (P expanded to RGBA first);    *)
(* an image in any other mode reaches the JPEG encoder unchanged.          *)
(***************************************************************************)
C9_FlattenUsesAlpha ==
    phase = "jpeg" =>
        IF img_in.mode \in {"RGBA", "LA", "P"}
        THEN /\ img_out.mode = "RGB"
             /\ img_out.size = img_in.size
             /\ img_out.px = OverWhite(ConvertRGBA(img_in).px)
        ELSE img_out = img_in

\* the log is a sequence of files, each begun and finished before the next,
\* and no already-PNG file is begun after a non-PNG file
PngFilesFirst ==
    \A k \in DOMAIN log :
        /\ log[k][1] \in {"copying", "processing"} =>
              /\ k < Len(log)
              /\ log[k + 1][1] \in {"saved", "error"}
              /\ log[k + 1][2] = log[k][2]
        /\ log[k][1] = "processing" =>
              \A m \in DOMAIN log : m > k => log[m][1] # "copying"

\* the non-PNG matched files converted to the name d
ConvertedTo(d) ==
    { q \in MatchedFiles \ PngSources : Stem(q) \o <<".", "p", "n", "g">> = d }

====
